---- MODULE Spec2Model ----
(***************************************************************************)
(* Model of the MediaServerRefresh plugin                                  *)
(* (plugins.v2/mediaserverrefresh9/__init__.py): the pending queue, the    *)
(* debounce waiter, the manual flush, the dispatcher and stop_service.     *)
(*                                                                         *)
(* Threads: event handlers (refresh), waiter threads started by _debounce, *)
(* and the API thread that runs refresh_now.  A block under                *)
(* `with self._lock` is one atomic step; code between two such blocks that *)
(* touches no shared state is folded into the step before it.              *)
(* Time is a discrete clock; one second is PollStep ticks.                 *)
(***************************************************************************)
EXTENDS Integers, Sequences, FiniteSets, TLC

\* ---- bounds of the model ------------------------------------------------
MaxEvents == 2
MaxBatch == 3
NumHandlers == 2
NumWaiters == 2
MaxDelay == 2
MaxTime == 7

\* ---- program constants --------------------------------------------------
\* time.sleep(1) of the waiter, in clock ticks (a tick is half a second)
PollStep == 2

\* services the registry knows, in the order of the dict it returns
Services == <<"emby", "plex">>
ServiceSet == {Services[k] : k \in 1..Len(Services)}

\* target paths an event can carry
Paths == { <<"lib", "showA", "ep1">>, <<"lib", "showA", "ep2">>, <<"lib", "showB", "ep1">> }

\* the part of the environment the queue and the timer are exercised with: the
\* dispatch loops touch no shared state, so one service and one path are enough there
CoreServices == {Services[1]}
CorePaths == { <<"lib", "showA", "ep1">> }

Handlers == {<<"h", k>> : k \in 1..NumHandlers}
Waiters == {<<"w", k>> : k \in 1..NumWaiters}
Manual == <<"m", 1>>
Threads == Handlers \cup Waiters \cup {Manual}

VARIABLES
    _enabled,        \* config: plugin enabled
    _delay,          \* config: debounce delay in seconds (0 = immediate)
    capable,         \* services whose instance has refresh_library_by_items
    punctual,        \* timing assumption of the run: bookkeeping takes no time and
                     \* time.sleep(1) is exact (TRUE), or threads are arbitrarily slow
    now,             \* time.time()
    _pending_items,  \* the pending queue (item ids, in append order)
    _in_delay,       \* a waiter is armed
    _end_time,       \* the deadline
    _lock,           \* the thread inside a `with self._lock` block, NoHolder if none
    th,              \* per thread: control point and locals
    created,         \* history: the target_path of every RefreshMediaItem built, by id
    drains,          \* history: per item id, the kinds of the threads whose drain took it
                     \* ("h", "w", "m"), and "s" when stop_service cleared it
    firstArr, lastArr,  \* history: time of the first and of the last accepted event
    nCycles, cycleT, \* history: dispatch cycles started by waiters, time of the last one
                     \* (these four are kept in punctual runs only, see Stamp)
    stopState        \* history: "stopped" after stop_service ran with a waiter waiting

vars == << _enabled, _delay, capable, punctual, now, _pending_items, _in_delay, _end_time, _lock, th,
           created, drains, firstArr, lastArr, nCycles, cycleT, stopState >>

config == << _enabled, _delay, capable, punctual >>
history == << created, drains, firstArr, lastArr, nCycles, cycleT, stopState >>

\* threading.Lock(): nobody holds it
NoHolder == <<"none", 0>>

\* `with self._lock` can be entered
LockFree == _lock = NoHolder

\* locals of a thread that is not running
Idle == [pc |-> "idle", own |-> 0, items |-> <<>>, svcs |-> <<>>, si |-> 0, ii |-> 0,
         calls |-> <<>>, wake |-> 0, res |-> "none", e0 |-> FALSE, midwait |-> FALSE]

Kind(t) == t[1]

Range(s) == {s[k] : k \in 1..Len(s)}

\* the lowest free thread of a pool: thread identities are interchangeable
Lowest(pool) == CHOOSE t \in pool : th[t].pc = "idle" /\ \A u \in pool : th[u].pc = "idle" => t[2] <= u[2]

HasFree(pool) == \E t \in pool : th[t].pc = "idle"

\* Path(...).parent
Parent(p) == SubSeq(p, 1, Len(p) - 1)

\* str(i.target_path.parent) of an item id
Key(i) == Parent(created[i])

\* the dict built by `uniq[str(i.target_path.parent)] = i`: a key keeps the place of
\* its first insertion, its value is overwritten by later items
RECURSIVE DedupFrom(_, _, _)
DedupFrom(its, k, acc) ==
    IF k > Len(its) THEN acc
    ELSE LET pos == {j \in 1..Len(acc) : Key(acc[j]) = Key(its[k])}
         IN  IF pos = {} THEN DedupFrom(its, k + 1, Append(acc, its[k]))
             ELSE DedupFrom(its, k + 1, [acc EXCEPT ![CHOOSE j \in pos : TRUE] = its[k]])

\* a dedup that keeps the first item of a directory instead of the last
RECURSIVE DedupFirstFrom(_, _, _)
DedupFirstFrom(its, k, acc) ==
    IF k > Len(its) THEN acc
    ELSE IF \E j \in 1..Len(acc) : Key(acc[j]) = Key(its[k])
         THEN DedupFirstFrom(its, k + 1, acc)
         ELSE DedupFirstFrom(its, k + 1, Append(acc, its[k]))

uniq_first_wins(its) == DedupFirstFrom(its, 1, <<>>)

\* list(uniq.values())
uniq(its) == DedupFrom(its, 1, <<>>)

\* service_infos when the registry reports the services `alive` as configured and
\* active: those services in dict order; <<>> is None
RECURSIVE ActiveFrom(_, _)
ActiveFrom(alive, k) ==
    IF k > Len(Services) THEN <<>>
    ELSE IF Services[k] \in alive THEN <<Services[k]>> \o ActiveFrom(alive, k + 1)
         ELSE ActiveFrom(alive, k + 1)

service_infos(alive) == ActiveFrom(alive, 1)

\* history: the drain by a thread of kind `by` took every pending item
Taken(by) == [i \in 1..Len(drains) |->
                 IF i \in Range(_pending_items) THEN Append(drains[i], by) ELSE drains[i]]

\* history: a time stamp or a count, kept in punctual runs, where the timing
\* properties are stated
Stamp(x) == IF punctual THEN x ELSE 0

\* a waiter that has not left its wait loop
Waiting(w) == th[w].pc = "loop"

\* ---- initial state: after init_plugin(config) ----------------------------
Init ==
    /\ _enabled \in BOOLEAN
    /\ _delay \in 0..MaxDelay
    /\ capable \in SUBSET ServiceSet
    /\ punctual \in BOOLEAN
    /\ now = 1
    /\ _pending_items = <<>>
    /\ _in_delay = FALSE
    /\ _end_time = 0
    /\ _lock = NoHolder
    /\ th = [t \in Threads |-> Idle]
    /\ created = <<>>
    /\ drains = <<>>
    /\ firstArr = 0 /\ lastArr = 0
    /\ nCycles = 0 /\ cycleT = 0
    /\ stopState = "none"

\* a handler that takes the timer path whatever the delay
immediate_never == FALSE

\* `if not self._delay`: flush on the calling path
immediate == _delay = 0

\* ---- refresh(event): checks, item construction, append, `if not self._delay`
refresh(h, valid, p) ==
    /\ HasFree(Handlers) /\ h = Lowest(Handlers)
    /\ IF _enabled /\ valid
       THEN /\ LockFree /\ _lock' = NoHolder
            /\ created' = Append(created, p)
            /\ drains' = Append(drains, <<>>)
            /\ _pending_items' = Append(_pending_items, Len(created) + 1)
            /\ th' = [th EXCEPT ![h].pc = IF immediate THEN "flush" ELSE "debounce",
                                ![h].own = Len(created) + 1]
            /\ firstArr' = IF created = <<>> THEN Stamp(now) ELSE firstArr
            /\ lastArr' = Stamp(now)
            /\ stopState' = "none"
       ELSE UNCHANGED << created, drains, _pending_items, _lock, th, firstArr, lastArr, stopState >>
    /\ UNCHANGED << config, now, _in_delay, _end_time, nCycles, cycleT >>

\* a deadline that is only set when the timer is armed, not extended afterwards
new_deadline_unextended == IF _in_delay THEN _end_time ELSE now + _delay * PollStep

\* an arrival that finds the timer armed makes it expire at once
new_deadline_expires_when_armed == IF _in_delay THEN now ELSE now + _delay * PollStep

\* self._end_time = time.time() + delay
new_deadline == now + _delay * PollStep

\* a _debounce that does not look at _in_delay
armed_unchecked == FALSE

\* `if self._in_delay: return`
armed == _in_delay

\* ---- _debounce(delay): the locked block ----------------------------------
_debounce(h) ==
    /\ th[h].pc = "debounce"
    /\ LockFree /\ _lock' = NoHolder
    /\ _end_time' = new_deadline
    /\ IF armed
       THEN /\ th' = [th EXCEPT ![h] = Idle]
            /\ UNCHANGED _in_delay
       ELSE /\ _in_delay' = TRUE
            /\ th' = [th EXCEPT ![h].pc = "spawn"]
    /\ stopState' = IF stopState = "stopped" THEN "debounced" ELSE stopState
    /\ UNCHANGED << config, now, _pending_items, created, drains,
                    firstArr, lastArr, nCycles, cycleT >>

\* ---- _debounce: threading.Thread(target=waiter, daemon=True).start() ------
start_waiter(h) ==
    /\ th[h].pc = "spawn"
    /\ HasFree(Waiters)
    /\ th' = [th EXCEPT ![h] = Idle,
                        ![Lowest(Waiters)] = [Idle EXCEPT !.pc = "loop", !.wake = now]]
    /\ UNCHANGED << config, now, _pending_items, _in_delay, _end_time, _lock, history >>

\* ---- waiter: one evaluation of `while time.time() < self._end_time`, then
\* ---- time.sleep(1) or the exit of the loop
waiter_loop(w) ==
    /\ th[w].pc = "loop"
    /\ now >= th[w].wake
    /\ th' = IF now < _end_time
             THEN [th EXCEPT ![w].wake = now + PollStep]
             ELSE [th EXCEPT ![w].pc = "flush", ![w].wake = 0]
    /\ UNCHANGED << config, now, _pending_items, _in_delay, _end_time, _lock, history >>

\* a waiter that ends after its flush without touching _in_delay
AfterFlush_ends(t) == Idle

\* where a thread continues when _flush_with_items returns: the waiter goes on to
\* clear _in_delay, the event handler returns
AfterFlush(t) == IF Kind(t) = "w" THEN [Idle EXCEPT !.pc = "clear"] ELSE Idle

\* a copy that leaves the queue as it is
flush_cleared_skipped == _pending_items

\* self._pending_items.clear() of _flush_with_items: the queue afterwards
flush_cleared == <<>>

\* a flush that dispatches inside its `with self._lock` block
lock_kept_for_dispatch(t) == t

\* the `with self._lock` block of _flush_with_items ends before `if items`
lock_after_drain(t) == NoHolder

\* ---- _flush_with_items: the locked copy-and-clear, then `if items` --------
_flush_with_items(t) ==
    /\ th[t].pc = "flush"
    /\ LockFree /\ _lock' = lock_after_drain(t)
    /\ _pending_items' = flush_cleared
    /\ drains' = Taken(Kind(t))
    /\ IF _pending_items = <<>>
       THEN /\ th' = [th EXCEPT ![t] = AfterFlush(t)]
            /\ UNCHANGED << nCycles, cycleT >>
       ELSE /\ th' = [th EXCEPT ![t].pc = "do_refresh", ![t].items = _pending_items]
            /\ nCycles' = IF Kind(t) = "w" THEN Stamp(nCycles + 1) ELSE nCycles
            /\ cycleT' = IF Kind(t) = "w" THEN Stamp(now) ELSE cycleT
    /\ UNCHANGED << config, now, _in_delay, _end_time, created, firstArr, lastArr, stopState >>

\* position of the next call of the two dispatch loops, from service index s and
\* item index i: the item after i of service s if that service has
\* refresh_library_by_items, else the first item of the next service that has it;
\* pc "ret" when both loops are finished
RECURSIVE NextCall(_, _, _)
NextCall(r, s, i) ==
    IF s > Len(r.svcs) THEN [r EXCEPT !.pc = "ret", !.si = 0, !.ii = 0]
    ELSE IF r.svcs[s] \in capable /\ i < Len(uniq(r.items))
         THEN [r EXCEPT !.pc = "call", !.si = s, !.ii = i + 1]
         ELSE NextCall(r, s + 1, 0)

\* ---- _do_refresh: the registry snapshot, the dedup, the loop heads --------
_do_refresh(t, alive) ==
    /\ th[t].pc = "do_refresh"
    /\ th' = [th EXCEPT ![t] =
                 IF service_infos(alive) = <<>> THEN [th[t] EXCEPT !.pc = "ret", !.svcs = <<>>]
                 ELSE NextCall([th[t] EXCEPT !.svcs = service_infos(alive)], 1, 0)]
    /\ UNCHANGED << config, now, _pending_items, _in_delay, _end_time, _lock, history >>

\* ---- service.instance.refresh_library_by_items([item]) is issued ----------
call_begin(t) ==
    /\ th[t].pc = "call"
    /\ th' = [th EXCEPT ![t].pc = "incall",
                        ![t].calls = Append(@, [svc |-> th[t].svcs[th[t].si],
                                                 item |-> uniq(th[t].items)[th[t].ii],
                                                 res |-> "inflight"])]
    /\ UNCHANGED << config, now, _pending_items, _in_delay, _end_time, _lock, history >>

\* an exception handler placed around the item loop: the failure ends the service
after_error_leaves_loop(r) == NextCall(r, r.si + 1, 0)

\* no exception handler: the failure propagates and ends the thread that dispatches
after_error_propagates(r) == Idle

\* `except Exception as e: logger.error(...)` inside the item loop: on to the next item
after_error(r) == NextCall(r, r.si, r.ii)

\* ---- the call returns (time.sleep(0.2) follows) or raises (except: log) ---
call_end(t, ok) ==
    /\ th[t].pc = "incall"
    /\ LET r == [th[t] EXCEPT !.calls[Len(th[t].calls)].res = IF ok THEN "ok" ELSE "err"]
       IN  th' = [th EXCEPT ![t] = IF ok THEN [r EXCEPT !.pc = "pause"] ELSE after_error(r)]
    /\ UNCHANGED << config, now, _pending_items, _in_delay, _end_time, _lock, history >>

\* ---- time.sleep(0.2) ends --------------------------------------------------
pause_end(t) ==
    /\ th[t].pc = "pause"
    /\ th' = [th EXCEPT ![t] = NextCall(th[t], th[t].si, th[t].ii)]
    /\ UNCHANGED << config, now, _pending_items, _in_delay, _end_time, _lock, history >>

\* ---- _do_refresh returns to its caller -------------------------------------
do_refresh_return(t) ==
    /\ th[t].pc = "ret"
    /\ th' = [th EXCEPT ![t] =
                 IF Kind(t) = "m" THEN [th[t] EXCEPT !.pc = "returned", !.res = "success"]
                 ELSE AfterFlush(t)]
    /\ UNCHANGED << config, now, _pending_items, _in_delay, _end_time, _lock, history >>

\* ---- waiter: `with self._lock: self._in_delay = False`, the thread ends ----
waiter_clear(w) ==
    /\ th[w].pc = "clear"
    /\ LockFree /\ _lock' = NoHolder
    /\ _in_delay' = FALSE
    /\ th' = [th EXCEPT ![w] = Idle]
    /\ UNCHANGED << config, now, _pending_items, _end_time, history >>

\* ---- refresh_now: the enabled check and the registry check -----------------
refresh_now(m, alive) ==
    /\ th[m].pc = "idle"
    /\ LET r == [Idle EXCEPT !.e0 = (_pending_items = <<>>), !.svcs = service_infos(alive)]
       IN  th' = [th EXCEPT ![m] =
                     IF ~_enabled THEN [r EXCEPT !.pc = "returned", !.res = "disabled", !.svcs = <<>>]
                     ELSE IF r.svcs = <<>> THEN [r EXCEPT !.pc = "returned", !.res = "noservice"]
                          ELSE [r EXCEPT !.pc = "drain"]]
    /\ UNCHANGED << config, now, _pending_items, _in_delay, _end_time, _lock, history >>

\* a manual flush that goes on with an empty batch
nothing_pending_unchecked(its) == FALSE

\* `if not items` of refresh_now
nothing_pending(its) == its = <<>>

\* a manual flush whose locked block also disarms the timer
refresh_now_drain_disarms(m) ==
    /\ th[m].pc = "drain"
    /\ LockFree /\ _lock' = NoHolder
    /\ _pending_items' = <<>>
    /\ _in_delay' = FALSE
    /\ drains' = Taken("m")
    /\ LET r == [th[m] EXCEPT !.midwait = \E w \in Waiters : Waiting(w)]
       IN  th' = [th EXCEPT ![m] =
                     IF nothing_pending(_pending_items)
                     THEN [r EXCEPT !.pc = "returned", !.res = "nothing"]
                     ELSE [r EXCEPT !.pc = "do_refresh", !.items = _pending_items]]
    /\ UNCHANGED << config, now, _end_time, created,
                    firstArr, lastArr, nCycles, cycleT, stopState >>

\* ---- refresh_now: the locked copy-and-clear, then `if not items` -----------
refresh_now_drain(m) ==
    /\ th[m].pc = "drain"
    /\ LockFree /\ _lock' = NoHolder
    /\ _pending_items' = <<>>
    /\ drains' = Taken("m")
    /\ LET r == [th[m] EXCEPT !.midwait = \E w \in Waiters : Waiting(w)]
       IN  th' = [th EXCEPT ![m] =
                     IF nothing_pending(_pending_items)
                     THEN [r EXCEPT !.pc = "returned", !.res = "nothing"]
                     ELSE [r EXCEPT !.pc = "do_refresh", !.items = _pending_items]]
    /\ UNCHANGED << config, now, _in_delay, _end_time, created,
                    firstArr, lastArr, nCycles, cycleT, stopState >>

\* ---- refresh_now has handed its result to the API caller -------------------
refresh_now_return(m) ==
    /\ th[m].pc = "returned"
    /\ th' = [th EXCEPT ![m] = Idle]
    /\ UNCHANGED << config, now, _pending_items, _in_delay, _end_time, _lock, history >>

\* a shutdown that leaves the queue as it is
stop_cleared_skipped == _pending_items

\* self._pending_items.clear() of stop_service: the queue afterwards
stop_cleared == <<>>

\* ---- stop_service ------------------------------------------------------------
stop_service ==
    /\ LockFree /\ _lock' = NoHolder
    /\ _end_time' = 0
    /\ _pending_items' = stop_cleared
    /\ drains' = Taken("s")
    /\ stopState' = IF \E w \in Waiters : Waiting(w) THEN "stopped" ELSE stopState
    /\ UNCHANGED << config, now, _in_delay, th, created, firstArr, lastArr, nCycles, cycleT >>

\* a thread whose next step is bookkeeping, not a sleep, a registry query or a
\* call to a service
Urgent(t) ==
    \/ th[t].pc \in {"debounce", "spawn", "flush", "drain", "call", "ret", "clear", "returned"}
    \/ th[t].pc = "loop" /\ th[t].wake <= now

\* ---- the clock: in a punctual run it waits for the bookkeeping in progress ------
Tick ==
    /\ now < MaxTime
    /\ punctual => \A t \in Threads : ~Urgent(t)
    /\ now' = now + 1
    /\ UNCHANGED << config, _pending_items, _in_delay, _end_time, _lock, th, history >>

\* events arrive: paths drawn from P, at most n items are built in a run
ArrivalNext(P, n) ==
    \E h \in Handlers, valid \in BOOLEAN, p \in P : Len(created) < n /\ refresh(h, valid, p)

DebounceNext ==
    \E h \in Handlers : _debounce(h) \/ start_waiter(h)

WaiterNext ==
    \E w \in Waiters : waiter_loop(w) \/ waiter_clear(w)

FlushNext ==
    \E t \in Handlers \cup Waiters : _flush_with_items(t)

\* the dispatch steps, the registry answering with any subset of S
DispatchNext(S) ==
    \E t \in Threads :
        \/ \E alive \in SUBSET S : _do_refresh(t, alive)
        \/ call_begin(t)
        \/ \E ok \in BOOLEAN : call_end(t, ok)
        \/ pause_end(t)
        \/ do_refresh_return(t)

ManualNext(S) ==
    \/ \E alive \in SUBSET S : refresh_now(Manual, alive)
    \/ refresh_now_drain(Manual)
    \/ refresh_now_return(Manual)

Next ==
    \/ ArrivalNext(CorePaths, MaxEvents)
    \/ DebounceNext
    \/ WaiterNext
    \/ FlushNext
    \/ DispatchNext(CoreServices)
    \/ ManualNext(CoreServices)
    \/ stop_service
    \/ Tick

InitCore == Init /\ capable \subseteq CoreServices

InitFree == InitCore /\ punctual = FALSE

\* every interleaving of the threads, each arbitrarily slow against the clock
Spec == InitFree /\ [][Next]_vars

InitTimed == InitCore /\ punctual = TRUE

\* the same threads under punctual timing
SpecTimed == InitTimed /\ [][Next]_vars

\* the dispatcher over every registry answer, capability and path: one event at a
\* time and the waiter, under punctual timing
InitDispatch == Init /\ punctual = TRUE /\ _enabled = TRUE /\ _delay = 1

NextDispatch ==
    \/ (\A h \in Handlers : th[h].pc = "idle") /\ ArrivalNext(Paths, MaxBatch)
    \/ DebounceNext
    \/ WaiterNext
    \/ FlushNext
    \/ DispatchNext(ServiceSet)
    \/ Tick

SpecDispatch == InitDispatch /\ [][NextDispatch]_vars

\* ======================= properties ========================================

\* the number of places an item id occupies in a sequence
Occurrences(i, q) == Cardinality({k \in 1..Len(q) : q[k] = i})

\* the threads whose drained batch holds item i
Holders(i) == {t \in Threads : i \in Range(th[t].items)}

\* C1: an item that stop_service has not cleared is either still in the queue
\* (once, in no drain's batch) or out of the queue and in the batch of exactly one
\* drain: never in two batches, never gone without a drain
C1_ExactlyOneDrain ==
    \A i \in 1..Len(created) :
        drains[i] # <<"s">> =>
            /\ Cardinality(Holders(i)) <= 1
            /\ \/ Occurrences(i, _pending_items) = 1 /\ drains[i] = <<>> /\ Holders(i) = {}
               \/ Occurrences(i, _pending_items) = 0 /\ Len(drains[i]) = 1
                    /\ drains[i][1] \in {"h", "w", "m"}

\* C1 witness: with a delay, one item was taken by the waiter's flush and another by
\* the manual flush
C1_Witness ==
    /\ _delay > 0
    /\ \E i, j \in 1..Len(created) : drains[i] = <<"w">> /\ drains[j] = <<"m">>

\* waiter threads that exist, and handlers that have armed the timer and are about
\* to start one
LiveWaiters == {w \in Waiters : th[w].pc # "idle"}
Starting == {h \in Handlers : th[h].pc = "spawn"}

\* C2: at most one waiter thread exists (started, or about to be started by the
\* _debounce call that armed the timer) at any time, and one exists exactly while
\* _in_delay is set: _debounce calls made while armed start no further waiter
C2_SingleWaiter ==
    /\ Cardinality(LiveWaiters) + Cardinality(Starting) <= 1
    /\ _in_delay <=> (LiveWaiters \cup Starting # {})

\* C2 witness: a waiter is waiting, every event of the run has been through
\* _debounce, the later ones while the timer was armed, and all items are pending
C2_Witness ==
    /\ \E w \in Waiters : Waiting(w)
    /\ Len(created) = MaxEvents
    /\ Len(_pending_items) = MaxEvents
    /\ \A h \in Handlers : th[h].pc = "idle"

\* the delay in clock ticks
DelayTicks == _delay * PollStep

\* a burst: all accepted events so far arrived within a period shorter than the
\* delay, and neither a manual flush nor a shutdown has taken an item
Burst ==
    /\ _delay > 0
    /\ created # <<>>
    /\ lastArr - firstArr < DelayTicks
    /\ \A i \in 1..Len(created) : "m" \notin Range(drains[i]) /\ "s" \notin Range(drains[i])

\* C3: (punctual timing) a burst gets exactly one timer-driven dispatch cycle: never
\* two; the one cycle drains at a time t with last arrival + delay <= t < last
\* arrival + delay + one polling step; its batch holds every item of the burst; and
\* it has happened once that window has passed
C3_BurstOneDispatch ==
    Burst =>
        /\ nCycles <= 1
        /\ nCycles = 1 =>
              /\ lastArr + DelayTicks <= cycleT
              /\ cycleT < lastArr + DelayTicks + PollStep
              /\ \A i \in 1..Len(created) : drains[i] = <<"w">>
        /\ now >= lastArr + DelayTicks + PollStep => nCycles = 1

\* C3 witness: a burst of MaxEvents arrivals at different times was dispatched in one
\* cycle that started after the deadline, within the polling step
C3_Witness ==
    /\ Burst
    /\ Len(created) = MaxEvents
    /\ firstArr < lastArr
    /\ nCycles = 1
    /\ cycleT > lastArr + DelayTicks

\* the calls of thread t that went to service s, in order
CallsTo(t, s) == SelectSeq(th[t].calls, LAMBDA c : c.svc = s)

\* the parent directories of a batch
Dirs(its) == {Key(its[k]) : k \in 1..Len(its)}

\* the last item of a batch, in arrival order, that lies in directory d
LastOf(its, d) ==
    its[CHOOSE k \in 1..Len(its) : Key(its[k]) = d /\ \A j \in (k + 1)..Len(its) : Key(its[j]) # d]

\* C4: when a dispatch cycle ends, every service of its registry snapshot that
\* supports item-scoped refresh has received exactly one call per distinct parent
\* directory of the drained batch, for the last item of that directory in arrival
\* order; any other service has received none
C4_OnePerDirectoryLastWins ==
    \A t \in Threads :
        th[t].pc = "ret" =>
            \A s \in ServiceSet :
                IF s \in Range(th[t].svcs) /\ s \in capable
                THEN /\ Len(CallsTo(t, s)) = Cardinality(Dirs(th[t].items))
                     /\ \A d \in Dirs(th[t].items) :
                            \E k \in 1..Len(CallsTo(t, s)) :
                                CallsTo(t, s)[k].item = LastOf(th[t].items, d)
                ELSE CallsTo(t, s) = <<>>

\* C4 witness: the batch showA/ep1, showA/ep2, showB/ep1 was dispatched to two
\* item-capable services: two calls each, the showA call for the ep2 item
C4_Witness ==
    \E t \in Threads :
        /\ th[t].pc = "ret"
        /\ Len(th[t].items) = 3
        /\ [k \in 1..3 |-> created[th[t].items[k]]] =
               << <<"lib", "showA", "ep1">>, <<"lib", "showA", "ep2">>, <<"lib", "showB", "ep1">> >>
        /\ th[t].svcs = Services
        /\ capable = ServiceSet
        /\ \A s \in ServiceSet :
               [k \in 1..Len(CallsTo(t, s)) |-> CallsTo(t, s)[k].item] = <<th[t].items[2], th[t].items[3]>>

\* C5: a failed call aborts nothing: when a dispatch cycle ends, every item-capable
\* service of the snapshot has been called, to completion, for every item of the
\* deduplicated batch in order, whatever calls failed, and _do_refresh returns
\* normally
C5_FailureIsolation ==
    \A t \in Threads :
        th[t].pc = "ret" =>
            \A k \in 1..Len(th[t].svcs) :
                th[t].svcs[k] \in capable =>
                    /\ [j \in 1..Len(CallsTo(t, th[t].svcs[k])) |-> CallsTo(t, th[t].svcs[k])[j].item]
                           = uniq(th[t].items)
                    /\ \A j \in 1..Len(CallsTo(t, th[t].svcs[k])) :
                           CallsTo(t, th[t].svcs[k])[j].res \in {"ok", "err"}

\* C5 witness: two item-capable services and a batch of two directories; every
\* call to the first service failed, every call to the second succeeded
C5_Witness ==
    \E t \in Threads :
        /\ th[t].pc = "ret"
        /\ th[t].svcs = Services
        /\ capable = ServiceSet
        /\ Len(uniq(th[t].items)) = 2
        /\ Len(th[t].calls) = 4
        /\ \A j \in 1..4 : th[t].calls[j].res = IF th[t].calls[j].svc = Services[1] THEN "err" ELSE "ok"

\* C6 as stated: a manual flush invoked on an empty queue returns "nothing pending"
\* and has made no call
C6_Original ==
    (th[Manual].pc = "returned" /\ th[Manual].e0) =>
        (th[Manual].res = "nothing" /\ th[Manual].calls = <<>>)

\* C6 amended: a manual flush invoked on an empty queue that is still empty at its
\* drain makes no call and returns a failure: "disabled" when the plugin is
\* disabled, "no server" when the registry shows no live service, "nothing
\* pending" otherwise
C6_EmptyQueueFlush ==
    (th[Manual].pc = "returned" /\ th[Manual].e0 /\ th[Manual].items = <<>>) =>
        /\ th[Manual].calls = <<>>
        /\ th[Manual].res = IF ~_enabled THEN "disabled"
                            ELSE IF th[Manual].svcs = <<>> THEN "noservice" ELSE "nothing"

\* C6 witness: enabled, a live service, the queue empty at the call and at the drain
C6_Witness ==
    /\ _enabled
    /\ th[Manual].pc = "returned" /\ th[Manual].e0 /\ th[Manual].items = <<>>
    /\ th[Manual].svcs # <<>>
    /\ th[Manual].res = "nothing"

\* with delay = 0 the timer is never used: _in_delay stays false, no waiter is
\* started, no handler enters _debounce, no drain is a waiter's
NoTimer ==
    /\ ~_in_delay
    /\ LiveWaiters = {}
    /\ \A h \in Handlers : th[h].pc \notin {"debounce", "spawn"}
    /\ \A i \in 1..Len(created) : "w" \notin Range(drains[i])

\* C7 as stated: with delay = 0 the timer is never used, and an item is dispatched
\* inside the handler that accepted it, before that handler returns: while an item
\* is in a batch under dispatch, its handler has not returned
C7_Original ==
    _delay = 0 =>
        /\ NoTimer
        /\ \A t \in Threads : \A i \in Range(th[t].items) :
               \E h \in Handlers : th[h].pc # "idle" /\ th[h].own = i

\* C7 amended: with delay = 0 the timer is never used, and an item is in the queue
\* only while the handler that appended it has not yet run its own flush: when the
\* handler returns, its item has been taken by a flush (its own, or a concurrent
\* one that dispatches it on its own thread)
C7_ImmediateDispatch ==
    _delay = 0 =>
        /\ NoTimer
        /\ \A i \in Range(_pending_items) : \E h \in Handlers : th[h].pc = "flush" /\ th[h].own = i
        /\ \A h \in Handlers : th[h].items # <<>> => th[h].pc \in {"do_refresh", "call", "incall", "pause", "ret"}

\* C7 witness: with delay = 0 a handler has dispatched its own item, calls made, and
\* has not returned yet
C7_Witness ==
    /\ _delay = 0
    /\ \E h \in Handlers :
           /\ th[h].pc = "ret"
           /\ th[h].own \in Range(th[h].items)
           /\ th[h].calls # <<>>

\* C8: no step of refresh_now (its checks, its drain, its dispatch, its return)
\* changes _in_delay or _end_time or starts, ends or moves a waiter
C8_ManualFlushFrame ==
    [][th'[Manual] # th[Manual] =>
          /\ _in_delay' = _in_delay
          /\ _end_time' = _end_time
          /\ \A w \in Waiters : th'[w] = th[w]
          /\ Starting' = Starting]_vars

\* C8 witness: a manual flush has returned success while the timer is armed and the
\* waiter is waiting
C8_Witness ==
    /\ th[Manual].pc = "returned" /\ th[Manual].res = "success"
    /\ _in_delay
    /\ \E w \in Waiters : Waiting(w)

\* C9: a waiter whose flush finds the queue empty (a manual flush has taken the
\* items) makes no refresh call: it goes straight on to clear _in_delay, and the
\* step after that has cleared it and ended the thread
C9_EmptyExpiry ==
    [][\A w \in Waiters :
          /\ (th[w].pc = "flush" /\ _pending_items = <<>> /\ th'[w] # th[w]) =>
                 (th'[w].pc = "clear" /\ th'[w].calls = <<>> /\ _in_delay')
          /\ (th[w].pc = "clear" /\ th'[w] # th[w]) =>
                 (th'[w].pc = "idle" /\ ~_in_delay')]_vars

\* C9 witness: the only item of the run was taken by a manual flush while the waiter
\* was waiting; the waiter has since expired, flushed nothing and is about to clear
C9_Witness ==
    /\ Len(created) = 1 /\ drains[1] = <<"m">>
    /\ th[Manual].midwait /\ th[Manual].items = <<1>>
    /\ \E w \in Waiters : th[w].pc = "clear"

\* what C10 promises once stop_service has run: the deadline is not in the future
\* (the waiter's next check ends its loop), the queue is empty, the waiter makes no
\* dispatch on its way out, _in_delay is false once it has ended, and no item that
\* stop_service cleared is in any batch
ShutdownEffect ==
    /\ _end_time <= now
    /\ _pending_items = <<>>
    /\ \A w \in Waiters : th[w].pc \in {"idle", "loop", "flush", "clear"}
    /\ LiveWaiters = {} => ~_in_delay
    /\ \A t \in Threads : \A i \in Range(th[t].items) : "s" \notin Range(drains[i])

\* C10 as stated: stop_service ran while a waiter was waiting and no event has been
\* accepted since
C10_Original ==
    stopState \in {"stopped", "debounced"} => ShutdownEffect

\* C10 amended: ... and no _debounce call has run since either (no handler was
\* between its append and its _debounce call at the shutdown)
C10_ShutdownEndsWaiter ==
    stopState = "stopped" => ShutdownEffect

\* C10 witness: stop_service cleared a pending item while the waiter was waiting,
\* nothing came after, and the waiter has ended with _in_delay false
C10_Witness ==
    /\ stopState = "stopped"
    /\ \E i \in 1..Len(created) : drains[i] = <<"s">>
    /\ LiveWaiters = {}
    /\ ~_in_delay

\* C11: a finished dispatch cycle has issued exactly one call to every live service
\* that lacks refresh_library_by_items (the whole-library refresh), whatever the batch
C11_WholeLibraryFallback ==
    \A t \in Threads :
        (th[t].pc = "ret" /\ th[t].svcs # <<>>) =>
            \A s \in Range(th[t].svcs) \ capable : Len(CallsTo(t, s)) = 1

\* the service of the refresh call a thread is executing
InFlight(t) == th[t].calls[Len(th[t].calls)].svc

\* C12: no two threads are inside a refresh call to the same service at the same time
C12_OneCallPerService ==
    \A t, u \in Threads :
        (t # u /\ th[t].pc = "incall" /\ th[u].pc = "incall") => InFlight(t) # InFlight(u)

\* a thread that is querying the registry, executing a refresh call, in the pacing
\* sleep or in the waiter's sleep
InIO(t) == th[t].pc \in {"do_refresh", "incall", "pause", "loop"}

\* C13: a thread inside a `with self._lock` block is not querying the registry, not
\* in a refresh call and not asleep, and the lock is not held by a thread that has
\* left its block: between the blocks (append, copy-and-clear, deadline and armed
\* bookkeeping) the lock is free
C13_LockOnlyForBookkeeping ==
    /\ \A t \in Threads : InIO(t) => _lock # t
    /\ _lock \in Threads => th[_lock].pc \notin {"idle", "call", "ret", "returned"}

\* C13 witness: while one thread is inside a refresh call after its drain, another
\* has entered the lock and appended an item
C13_Witness ==
    \E t \in Threads :
        /\ th[t].pc = "incall"
        /\ \E i \in Range(_pending_items) : \A j \in Range(th[t].items) : i > j

\* C14: within a dispatch cycle a refresh call is never followed directly, with no
\* pacing pause in between, by the next call to the same service
C14_PauseAfterEveryCall ==
    [][\A t \in Threads :
          (th[t].pc = "incall" /\ th'[t].pc = "call") =>
              th'[t].svcs[th'[t].si] # th[t].svcs[th[t].si]]_vars

\* C15 as stated: while the timer is armed no step sets the deadline to an earlier
\* value
C15_Original ==
    [][_in_delay => _end_time' >= _end_time]_vars

\* C15 amended: while the timer is armed no step of an event handler, of the waiter
\* or of the manual flush sets the deadline to an earlier value; stop_service, the
\* only step that moves no thread, leaves it or sets it to 0
C15_DeadlineMonotone ==
    [][_in_delay =>
          /\ th' # th => _end_time' >= _end_time
          /\ th' = th => _end_time' \in {_end_time, 0}]_vars

\* C15 witness: two items are pending and undrained, both handlers have run their
\* _debounce, the later one while the timer was armed, and the waiter is waiting
\* for the deadline that call has set
C15_Witness ==
    /\ _in_delay /\ _delay > 0
    /\ _pending_items = <<1, 2>>
    /\ \A h \in Handlers : th[h].pc = "idle"
    /\ \E w \in Waiters : Waiting(w)
    /\ now > 1 /\ _end_time = now + DelayTicks

\* C16: whenever the queue is non-empty and no handler is between its append and
\* its _debounce call, a waiter that has not yet drained is running or about to be
\* started
C16_PendingHasWaiter ==
    (_pending_items # <<>> /\ \A h \in Handlers : th[h].pc # "debounce") =>
        \/ Starting # {}
        \/ \E w \in Waiters : th[w].pc \in {"loop", "flush"}

\* C17: the items of a batch that a handler's or a waiter's flush has drained and
\* that _do_refresh has given up on because the registry showed no live service
\* are still in the pending queue
C17_NoDiscardWithoutService ==
    \A t \in Handlers \cup Waiters :
        (th[t].pc = "ret" /\ th[t].items # <<>> /\ th[t].svcs = <<>>) =>
            \A i \in Range(th[t].items) : i \in Range(_pending_items)

\* C18: when a waiter's flush drains a non-empty queue, the delay has elapsed since
\* the latest append (the newest item of the batch)
C18_OwnDelayElapsed ==
    [][\A w \in Waiters :
          (th[w].pc = "flush" /\ th'[w].pc # "flush" /\ _pending_items # <<>>) =>
              now >= lastArr + DelayTicks]_vars

\* C20: a manual flush that returns success has issued at least one refresh call
C20_SuccessMeansCalled ==
    (th[Manual].pc = "returned" /\ th[Manual].res = "success") => th[Manual].calls # <<>>

\* ---- the waiter's progress ---------------------------------------------------

\* the last clock value at which an event is taken up, so that every deadline and
\* every wake-up of a waiter lies within the clock's range
LastArrival == MaxTime - DelayTicks - PollStep + 1

\* every step of the waiter thread w, from its loop to the end of the thread
WaiterRun(w) ==
    \/ waiter_loop(w)
    \/ _flush_with_items(w)
    \/ \E alive \in SUBSET ServiceSet : _do_refresh(w, alive)
    \/ call_begin(w)
    \/ \E ok \in BOOLEAN : call_end(w, ok)
    \/ pause_end(w)
    \/ do_refresh_return(w)
    \/ waiter_clear(w)

InitLive == Init /\ punctual = FALSE /\ _enabled = TRUE /\ _delay = 1

NextLive ==
    \/ now <= LastArrival /\ ArrivalNext(Paths, MaxEvents)
    \/ now <= LastArrival /\ \E h \in Handlers : _debounce(h)
    \/ \E h \in Handlers : start_waiter(h)
    \/ WaiterNext
    \/ FlushNext
    \/ DispatchNext(ServiceSet)
    \/ stop_service
    \/ Tick

\* the clock advances and a started waiter thread is scheduled; every registry
\* query and every refresh call comes back, with a result or an exception
SpecLive ==
    InitLive /\ [][NextLive]_vars /\ WF_vars(Tick) /\ \A w \in Waiters : WF_vars(WaiterRun(w))

\* C19: once a waiter thread runs, it eventually ends with _in_delay reset to false,
\* whatever its refresh calls do
C19_CycleTerminates ==
    \A w \in Waiters : (th[w].pc # "idle") ~> (th[w].pc = "idle" /\ ~_in_delay)

\* C19 witness: a waiter has drained an item, has ended, and has left _in_delay
\* false; nothing is pending and no thread is running
C19_Witness ==
    /\ \E i \in 1..Len(created) : "w" \in Range(drains[i])
    /\ \A t \in Threads : th[t].pc = "idle"
    /\ ~_in_delay
    /\ _pending_items = <<>>

====
